---- MODULE Spec2Model ----
(***************************************************************************)
(* pollEvery (utils): a repeating poller.  One poller instance closes over *)
(* two variables, `timer` and `stop`, that every session started from it   *)
(* shares.  A session is one call of the function pollEvery returns; its   *)
(* loop is  poll: await request(); if (!stop) { onResult; setTimeout }.    *)
(*                                                                         *)
(* The JavaScript event loop is modelled as a set of pending timers and a  *)
(* set of requests in flight; one step of the model is one run-to-         *)
(* completion task: a call of start, a call of a stop function, a timer    *)
(* firing (first half of poll) or a request settling (second half of poll).*)
(*                                                                         *)
(* useWatchBlockNumber (index.tsx) is modelled next to it: the listener    *)
(* registry, and one pollEvery instance with one session per run of the    *)
(* effect.                                                                 *)
(***************************************************************************)
EXTENDS Integers, Sequences, FiniteSets, TLC

\* ---- bounds of the model ------------------------------------------------
MaxSessions == 2      \* calls of start on the poller
MaxRequests == 4      \* calls of request producers on the poller, all sessions together
MaxStopCalls == 2     \* calls of stop functions of the poller, all sessions together

MaxRuns == 2          \* runs of the effect of useWatchBlockNumber
MaxListeners == 2     \* distinct block number listeners
MaxPolls == 3         \* requests issued by the sessions of all effect runs together

Sessions == 1..MaxSessions

Runs == 1..MaxRuns

Listeners == 1..MaxListeners

VARIABLES
    timer,            \* `let timer`: last handle returned by setTimeout, 0 = undefined
    stop,             \* `let stop = false`
    pending,          \* timers set and neither fired nor cleared: [h, sess]
    nextHandle,       \* the handle the next setTimeout returns
    inflight,         \* requests awaited by some poll(): [sess, val]
    nSessions,        \* number of calls of start so far
    issued,           \* per session: calls of its request producer
    delivered,        \* per session: the values passed to its onResult, in order
    completed,        \* per session: requests that have settled
    scheduled,        \* per session: calls of setTimeout by its poll
    stopCalls,        \* per session: calls of its stop function
    firstStop,        \* per session: issued/delivered/scheduled at the first stop call
    restarted,        \* per session: start was called after its first stop call
    stoppedInFlight,  \* per session: stop called while its request is in flight, no start since
    failed,           \* per session: its request rejected, with the counts at that moment
    halted,           \* a stop function was called and start has not been called since
    issuedAtHalt,     \* per session: issued at the first stop call since the last start
    factoryCalls,     \* calls of fn, the factory passed to pollEvery
    pairOf            \* per session: the call of fn whose {request, onResult} its poll is bound to

\* useWatchBlockNumber
VARIABLES
    lastBlockNumber,       \* lastBlockNumber.current
    blockNumberListeners,  \* blockNumberListeners.current
    lastSeen,              \* per listener: the value of its latest invocation since it was added
    callsNow,              \* per listener: its invocations in the latest step
    updCall,               \* the call of updateBlockNumber in the latest step: <<run, value>>
    mounted,               \* the component has not been unmounted
    nRuns,                 \* runs of the effect so far
    runs                   \* per effect run: its `cancel`, and its poller's state

pvars == <<timer, stop, pending, nextHandle, inflight, nSessions, issued,
           delivered, completed, scheduled, stopCalls, firstStop, restarted,
           stoppedInFlight, failed, halted, issuedAtHalt, factoryCalls, pairOf>>

wvars == <<lastBlockNumber, blockNumberListeners, lastSeen, callsNow, updCall,
           mounted, nRuns, runs>>

vars == <<pvars, wvars>>

hist == <<stopCalls, firstStop, restarted, stoppedInFlight, failed, halted,
          issuedAtHalt, factoryCalls, pairOf>>

\* ---- helpers ------------------------------------------------------------
Started(s) == s <= nSessions

InFlight(s) == \E r \in inflight : r.sess = s

TimersOf(s) == {t \in pending : t.sess = s}

Snapshot(i, d, c) == [issued |-> i, delivered |-> d, scheduled |-> c]

RECURSIVE SumTo(_, _)
SumTo(f, n) == IF n = 0 THEN 0 ELSE f[n] + SumTo(f, n - 1)

\* stop functions called so far, over all sessions
TotalStops == SumTo(stopCalls, MaxSessions)

\* request producers called so far, over all sessions
TotalIssued == SumTo(issued, MaxSessions)

\* clearTimeout(h): cancels the timer with that handle, if it is still pending
clearTimeout(ts, h) == {t \in ts : t.h # h}

\* the stub request producer of the spec's scenarios: its i-th call yields i
request(s) == issued[s] + 1

\* values of a block number: null, a number (as the chain returns it), a
\* string (as updateBlockNumber receives it); Unseen: never invoked
Null == <<"null">>

Unseen == <<"unseen">>

Num(n) == <<"number", n>>

BlockNumbers == {1, 2}

RawResults == {Null} \cup {Num(n) : n \in BlockNumbers}

NoCall == <<0, Unseen>>

NoCalls == [cb \in Listeners |-> 0]

RECURSIVE PollsTo(_, _)
PollsTo(rs, n) == IF n = 0 THEN 0 ELSE rs[n].issued + PollsTo(rs, n - 1)

\* requests issued so far by the sessions of all effect runs
TotalPolls == PollsTo(runs, MaxRuns)

\* an effect run that has not happened
IdleRun ==
    [polkadot |-> FALSE, cancel |-> FALSE, stop |-> FALSE, timer |-> 0,
     nextHandle |-> 1, pending |-> {}, inflight |-> 0, issued |-> 0,
     cleaned |-> FALSE, settledAfterCleanup |-> FALSE]

WatchInit ==
    /\ lastBlockNumber = Null
    /\ blockNumberListeners = {}
    /\ lastSeen = [cb \in Listeners |-> Unseen]
    /\ callsNow = NoCalls
    /\ updCall = NoCall
    /\ mounted = TRUE
    /\ nRuns = 0
    /\ runs = [e \in Runs |-> IdleRun]

Init ==
    /\ WatchInit
    /\ timer = 0
    /\ stop = FALSE
    /\ pending = {}
    /\ nextHandle = 1
    /\ inflight = {}
    /\ nSessions = 0
    /\ issued = [s \in Sessions |-> 0]
    /\ delivered = [s \in Sessions |-> <<>>]
    /\ completed = [s \in Sessions |-> 0]
    /\ scheduled = [s \in Sessions |-> 0]
    /\ stopCalls = [s \in Sessions |-> 0]
    /\ firstStop = [s \in Sessions |-> Snapshot(0, 0, 0)]
    /\ restarted = [s \in Sessions |-> FALSE]
    /\ stoppedInFlight = [s \in Sessions |-> FALSE]
    /\ failed = [s \in Sessions |-> [rejected |-> FALSE, issued |-> 0, delivered |-> 0]]
    /\ halted = FALSE
    /\ issuedAtHalt = [s \in Sessions |-> 0]
    /\ factoryCalls = 0
    /\ pairOf = [s \in Sessions |-> 0]

\* poll, up to its await: the request producer is called
poll(s) ==
    /\ TotalIssued < MaxRequests
    /\ inflight' = inflight \cup {[sess |-> s, val |-> request(s)]}
    /\ issued' = [issued EXCEPT ![s] = @ + 1]

\* a factory wrapped in a memo: fn is called by the first start only
startMemo ==
    /\ nSessions < MaxSessions
    /\ nSessions' = nSessions + 1
    /\ factoryCalls' = IF factoryCalls = 0 THEN 1 ELSE factoryCalls
    /\ pairOf' = [pairOf EXCEPT ![nSessions + 1] = factoryCalls']
    /\ stop' = FALSE
    /\ halted' = FALSE
    /\ issuedAtHalt' = [s \in Sessions |-> 0]
    /\ poll(nSessions + 1)
    /\ restarted' = [s \in Sessions |-> restarted[s] \/ stopCalls[s] > 0]
    /\ stoppedInFlight' = [s \in Sessions |-> FALSE]
    /\ UNCHANGED <<timer, pending, nextHandle, delivered, completed, scheduled,
                   stopCalls, firstStop, failed>>

\* the function pollEvery returns: fn(), stop = false, poll(), return stop function
start ==
    /\ nSessions < MaxSessions
    /\ nSessions' = nSessions + 1
    /\ factoryCalls' = factoryCalls + 1
    /\ pairOf' = [pairOf EXCEPT ![nSessions + 1] = factoryCalls + 1]
    /\ stop' = FALSE
    /\ halted' = FALSE
    /\ issuedAtHalt' = [s \in Sessions |-> 0]
    /\ poll(nSessions + 1)
    /\ restarted' = [s \in Sessions |-> restarted[s] \/ stopCalls[s] > 0]
    /\ stoppedInFlight' = [s \in Sessions |-> FALSE]
    /\ UNCHANGED <<timer, pending, nextHandle, delivered, completed, scheduled,
                   stopCalls, firstStop, failed>>

\* the history a call of session c's stop function leaves, when session c has
\* delivered d results so far and fl tells whether its request is in flight
stopRecorded(c, d, fl, base) ==
    /\ stopCalls' = [stopCalls EXCEPT ![c] = @ + 1]
    /\ firstStop' = IF stopCalls[c] = 0
                    THEN [firstStop EXCEPT ![c] = Snapshot(issued[c], d, scheduled[c])]
                    ELSE firstStop
    /\ stoppedInFlight' = [base EXCEPT ![c] = @ \/ fl]
    /\ halted' = TRUE
    /\ issuedAtHalt' = IF halted THEN issuedAtHalt ELSE issued

\* a stop function that clears the timer and leaves the flag alone
stopFnTimerOnly(s) ==
    /\ Started(s)
    /\ TotalStops < MaxStopCalls
    /\ stop' = stop
    /\ pending' = clearTimeout(pending, timer)
    /\ stopRecorded(s, Len(delivered[s]), InFlight(s), stoppedInFlight)
    /\ UNCHANGED <<timer, nextHandle, inflight, nSessions, issued, delivered,
                   completed, scheduled, restarted, failed, factoryCalls, pairOf>>

\* the stop function of session s: stop = true; clearTimeout(timer)
stopFn(s) ==
    /\ Started(s)
    /\ TotalStops < MaxStopCalls
    /\ stop' = TRUE
    /\ pending' = clearTimeout(pending, timer)
    /\ stopRecorded(s, Len(delivered[s]), InFlight(s), stoppedInFlight)
    /\ UNCHANGED <<timer, nextHandle, inflight, nSessions, issued, delivered,
                   completed, scheduled, restarted, failed, factoryCalls, pairOf>>

\* setInterval in place of setTimeout: the timer stays pending after it fires
timerFiresInterval(t) ==
    /\ t \in pending
    /\ pending' = pending
    /\ poll(t.sess)
    /\ UNCHANGED <<timer, stop, nextHandle, nSessions, delivered, completed,
                   scheduled, hist>>

\* a timer set by poll fires: poll.bind(null, request, onResult) runs
timerFires(t) ==
    /\ t \in pending
    /\ pending' = pending \ {t}
    /\ poll(t.sess)
    /\ UNCHANGED <<timer, stop, nextHandle, nSessions, delivered, completed,
                   scheduled, hist>>

\* line 20, `if (!stop)`: may the settled result be delivered?
stopIgnored == TRUE

notStopped == ~stop

\* line 21, `onResult(result)`: the consumer's log after the call
onResultTwice(log, v) == Append(Append(log, v), v)

onResult(log, v) == Append(log, v)

\* line 22, `setTimeout(poll.bind(...), delay)`: the pending timers after the call
setTimeoutDropped(ts, h, s) == ts

setTimeout(ts, h, s) == ts \cup {[h |-> h, sess |-> s]}

\* a try/catch around the await that retries after the delay
awaitCaught(r) ==
    LET s == r.sess IN
    /\ failed' = [failed EXCEPT ![s] =
           [rejected |-> TRUE, issued |-> issued[s], delivered |-> Len(delivered[s])]]
    /\ stoppedInFlight' = [stoppedInFlight EXCEPT ![s] = FALSE]
    /\ pending' = setTimeout(pending, nextHandle, s)
    /\ timer' = nextHandle
    /\ nextHandle' = nextHandle + 1
    /\ scheduled' = [scheduled EXCEPT ![s] = @ + 1]
    /\ UNCHANGED <<stop, delivered, stopCalls, firstStop, halted, issuedAtHalt>>

\* poll from its await on, request rejected: the await throws, nothing in
\* poll catches, the async function ends
awaitThrows(r) ==
    LET s == r.sess IN
    /\ failed' = [failed EXCEPT ![s] =
           [rejected |-> TRUE, issued |-> issued[s], delivered |-> Len(delivered[s])]]
    /\ stoppedInFlight' = [stoppedInFlight EXCEPT ![s] = FALSE]
    /\ UNCHANGED <<timer, stop, pending, nextHandle, delivered, scheduled,
                   stopCalls, firstStop, halted, issuedAtHalt>>

\* setTimeout placed after the `if`: a dropped result still schedules a timer
resultDroppedRetry(r) ==
    /\ stoppedInFlight' = [stoppedInFlight EXCEPT ![r.sess] = FALSE]
    /\ pending' = setTimeout(pending, nextHandle, r.sess)
    /\ timer' = nextHandle
    /\ nextHandle' = nextHandle + 1
    /\ scheduled' = [scheduled EXCEPT ![r.sess] = @ + 1]
    /\ UNCHANGED <<stop, delivered, stopCalls, firstStop, failed, halted,
                   issuedAtHalt>>

\* poll from its await on, request resolved, `if (!stop)` not taken
resultDropped(r) ==
    /\ stoppedInFlight' = [stoppedInFlight EXCEPT ![r.sess] = FALSE]
    /\ UNCHANGED <<timer, stop, pending, nextHandle, delivered, scheduled,
                   stopCalls, firstStop, failed, halted, issuedAtHalt>>

\* poll from its await on, request resolved, `if (!stop)` taken: onResult,
\* which may itself call the stop function of session cb (0: it calls none),
\* then timer = setTimeout(...)
resultDelivered(r, cb) ==
    LET s == r.sess
        cleared == [stoppedInFlight EXCEPT ![s] = FALSE]
    IN
    /\ delivered' = [delivered EXCEPT ![s] = onResult(@, r.val)]
    /\ IF cb = 0
       THEN /\ stop' = stop
            /\ pending' = setTimeout(pending, nextHandle, s)
            /\ stoppedInFlight' = cleared
            /\ UNCHANGED <<stopCalls, firstStop, halted, issuedAtHalt>>
       ELSE /\ Started(cb)
            /\ TotalStops < MaxStopCalls
            /\ stop' = TRUE
            /\ pending' = setTimeout(clearTimeout(pending, timer), nextHandle, s)
            /\ stopRecorded(cb, Len(delivered'[cb]),
                            \E q \in inflight' : q.sess = cb, cleared)
    /\ timer' = nextHandle
    /\ nextHandle' = nextHandle + 1
    /\ scheduled' = [scheduled EXCEPT ![s] = @ + 1]
    /\ UNCHANGED failed

\* poll, from its await on: the request r settles with `outcome`
pollResume(r, outcome, cb) ==
    /\ r \in inflight
    /\ inflight' = inflight \ {r}
    /\ completed' = [completed EXCEPT ![r.sess] = @ + 1]
    /\ UNCHANGED <<nSessions, issued, restarted, factoryCalls, pairOf>>
    /\ CASE outcome = "reject" -> cb = 0 /\ awaitThrows(r)
         [] outcome = "resolve" /\ ~notStopped -> cb = 0 /\ resultDropped(r)
         [] outcome = "resolve" /\ notStopped -> resultDelivered(r, cb)

Outcomes == {"resolve", "reject"}

Next ==
    \/ start /\ UNCHANGED wvars
    \/ \E s \in Sessions : stopFn(s) /\ UNCHANGED wvars
    \/ \E t \in pending : timerFires(t) /\ UNCHANGED wvars
    \/ \E r \in inflight, o \in Outcomes, cb \in 0..MaxSessions :
          pollResume(r, o, cb) /\ UNCHANGED wvars

Spec == Init /\ [][Next]_vars

\* timers fire once due and the requests of the claim's sessions resolve
Fairness ==
    \A s \in Sessions :
        /\ WF_vars(\E t \in pending : t.sess = s /\ timerFires(t) /\ UNCHANGED wvars)
        /\ WF_vars(\E r \in inflight :
                      r.sess = s /\ pollResume(r, "resolve", 0) /\ UNCHANGED wvars)

LiveSpec == Spec /\ Fairness

\* ---- useWatchBlockNumber --------------------------------------------------
\* no call of updateBlockNumber and no listener invoked in this step
noUpdate ==
    /\ updCall' = NoCall
    /\ callsNow' = NoCalls
    /\ UNCHANGED <<lastBlockNumber, lastSeen, blockNumberListeners>>

\* updateBlockNumber without the early return on an equal value
updateAlways(blockNumber, e) ==
    /\ updCall' = <<e, blockNumber>>
    /\ lastBlockNumber' = blockNumber
    /\ lastSeen' = [cb \in Listeners |->
                      IF cb \in blockNumberListeners THEN blockNumber ELSE lastSeen[cb]]
    /\ callsNow' = [cb \in Listeners |->
                      IF cb \in blockNumberListeners THEN 1 ELSE 0]
    /\ UNCHANGED blockNumberListeners

\* updateBlockNumber(blockNumber), called by effect run e
updateBlockNumber(blockNumber, e) ==
    /\ updCall' = <<e, blockNumber>>
    /\ IF lastBlockNumber = blockNumber
       THEN /\ callsNow' = NoCalls
            /\ UNCHANGED <<lastBlockNumber, lastSeen>>
       ELSE /\ lastBlockNumber' = blockNumber
            /\ lastSeen' = [cb \in Listeners |->
                   IF cb \in blockNumberListeners THEN blockNumber ELSE lastSeen[cb]]
            /\ callsNow' = [cb \in Listeners |->
                   IF cb \in blockNumberListeners THEN 1 ELSE 0]
    /\ UNCHANGED blockNumberListeners

\* addBlockNumberListener that registers without the immediate call
addSilently(cb) ==
    /\ updCall' = NoCall
    /\ callsNow' = NoCalls
    /\ blockNumberListeners' = blockNumberListeners \cup {cb}
    /\ UNCHANGED <<lastBlockNumber, lastSeen, mounted, nRuns, runs>>

addBlockNumberListener(cb) ==
    /\ updCall' = NoCall
    /\ IF cb \in blockNumberListeners
       THEN /\ callsNow' = NoCalls
            /\ UNCHANGED <<lastSeen, blockNumberListeners>>
       ELSE /\ callsNow' = [NoCalls EXCEPT ![cb] = 1]
            /\ lastSeen' = [lastSeen EXCEPT ![cb] = lastBlockNumber]
            /\ blockNumberListeners' = blockNumberListeners \cup {cb}
    /\ UNCHANGED <<lastBlockNumber, mounted, nRuns, runs>>

removeBlockNumberListener(cb) ==
    /\ updCall' = NoCall
    /\ callsNow' = NoCalls
    /\ blockNumberListeners' = blockNumberListeners \ {cb}
    /\ lastSeen' = [lastSeen EXCEPT ![cb] = Unseen]
    /\ UNCHANGED <<lastBlockNumber, mounted, nRuns, runs>>

\* JSBI.BigInt(n).toString(), and null kept as null
Converted(raw) == IF raw = Null THEN Null ELSE <<"string", ToString(raw[2])>>

\* an effect that returns no cleanup function
cleanupMissing(rec) == [rec EXCEPT !.cleaned = TRUE]

\* the cleanup the effect returns: cancel = true; stopPollingBlockNumber()
cleanup(rec) ==
    [rec EXCEPT !.cancel = TRUE,
                !.stop = TRUE,
                !.pending = clearTimeout(@, rec.timer),
                !.cleaned = TRUE]

\* React runs the cleanup of the latest effect run, if that run returned one
\* and it has not run yet
cleanedUp(rs) ==
    IF nRuns > 0 /\ rs[nRuns].polkadot /\ ~rs[nRuns].cleaned
    THEN [rs EXCEPT ![nRuns] = cleanup(@)]
    ELSE rs

\* pollEvery(...) and pollBlockNumber() in a run with a polkadot api:
\* a fresh poller, stop = false, poll up to its await
pollBlockNumber(rec) ==
    [rec EXCEPT !.polkadot = TRUE, !.cancel = FALSE, !.stop = FALSE,
                !.inflight = @ + 1, !.issued = @ + 1]

\* the effect runs (mount, or a dependency changed), after the cleanup of
\* the previous run; p: polkadot is set
effectRuns(p) ==
    /\ mounted
    /\ nRuns < MaxRuns
    /\ nRuns' = nRuns + 1
    /\ IF p
       THEN /\ TotalPolls < MaxPolls
            /\ runs' = [cleanedUp(runs) EXCEPT ![nRuns + 1] = pollBlockNumber(@)]
            /\ noUpdate
       ELSE /\ runs' = cleanedUp(runs)
            /\ updateBlockNumber(Null, nRuns + 1)
    /\ UNCHANGED mounted

\* the component unmounts: the cleanup of the latest run
unmount ==
    /\ mounted
    /\ nRuns > 0
    /\ mounted' = FALSE
    /\ runs' = cleanedUp(runs)
    /\ noUpdate
    /\ UNCHANGED nRuns

\* the timer of run e's poller fires: poll up to its await
runTimerFires(e, t) ==
    /\ t \in runs[e].pending
    /\ TotalPolls < MaxPolls
    /\ runs' = [runs EXCEPT ![e].pending = @ \ {t},
                            ![e].inflight = @ + 1,
                            ![e].issued = @ + 1]
    /\ noUpdate
    /\ UNCHANGED <<mounted, nRuns>>

\* the request of run e settles: poll from its await on, with the onResult
\* of the effect: if (!cancel) updateBlockNumber(...)
runSettles(e, outcome, raw) ==
    LET rec == [runs[e] EXCEPT !.inflight = @ - 1,
                               !.settledAfterCleanup = @ \/ runs[e].cleaned]
    IN
    /\ runs[e].inflight > 0
    /\ UNCHANGED <<mounted, nRuns>>
    /\ IF outcome = "reject" \/ rec.stop
       THEN /\ runs' = [runs EXCEPT ![e] = rec]
            /\ noUpdate
       ELSE /\ IF ~rec.cancel
               THEN updateBlockNumber(Converted(raw), e)
               ELSE noUpdate
            /\ runs' = [runs EXCEPT ![e] =
                   [rec EXCEPT !.pending = setTimeout(@, rec.nextHandle, 1),
                               !.timer = rec.nextHandle,
                               !.nextHandle = @ + 1]]

WatchNext ==
    \/ \E p \in BOOLEAN : effectRuns(p) /\ UNCHANGED pvars
    \/ unmount /\ UNCHANGED pvars
    \/ \E cb \in Listeners : addBlockNumberListener(cb) /\ UNCHANGED pvars
    \/ \E cb \in Listeners : removeBlockNumberListener(cb) /\ UNCHANGED pvars
    \/ \E e \in Runs : \E t \in runs[e].pending : runTimerFires(e, t) /\ UNCHANGED pvars
    \/ \E e \in Runs, o \in Outcomes, raw \in RawResults :
          runSettles(e, o, raw) /\ UNCHANGED pvars

WatchSpec == Init /\ [][WatchNext]_vars

\* ---- properties ---------------------------------------------------------
AnyStop == \E s \in Sessions : stopCalls[s] > 0

Requests(s) == {r \in inflight : r.sess = s}

\* C1: once the stop function of a session has been invoked, its onResult is
\* not invoked again and no timer is scheduled for it again.
C1_StoppedSessionSilent ==
    \A s \in Sessions :
        stopCalls[s] > 0 =>
            /\ Len(delivered[s]) = firstStop[s].delivered
            /\ scheduled[s] = firstStop[s].scheduled

\* C2: a session has at most one request in flight, and none while the timer
\* scheduled after its previous request is still pending.
C2_AtMostOneInFlight ==
    \A s \in Sessions :
        /\ Cardinality(Requests(s)) + Cardinality(TimersOf(s)) <= 1
        /\ issued[s] - completed[s] = Cardinality(Requests(s))

C2_Witness ==
    \E s \in Sessions : InFlight(s) /\ issued[s] = 3 /\ completed[s] = 2

\* C3: a session's results reach onResult in the order its requests were
\* issued, each once; result i is delivered before request i+1 is issued; a
\* session that ran n iterations with no stop and no failure delivered r1..rn.
C3_InOrderDelivery ==
    \A s \in Sessions :
        /\ delivered[s] = [i \in 1..Len(delivered[s]) |-> i]
        /\ issued[s] - Len(delivered[s]) \in {0, 1}
        /\ InFlight(s) => Len(delivered[s]) = issued[s] - 1
        /\ (~AnyStop /\ ~failed[s].rejected /\ ~InFlight(s))
               => Len(delivered[s]) = issued[s]

C3_Witness ==
    \E s \in Sessions : delivered[s] = <<1, 2, 3>> /\ stopCalls[s] = 0

\* C4: after a session's stop function has returned, that session issues no
\* further request.
C4_NoRequestAfterStop ==
    \A s \in Sessions : stopCalls[s] > 0 => issued[s] = firstStop[s].issued

\* C5: sessions of one poller do not interfere: while the stop function of a
\* session has not been invoked, each of its resolved requests is delivered
\* and followed by a timer, and its pending timer goes away only by firing.
C5_SessionsIndependent ==
    [][\A s \in Sessions :
          (stopCalls'[s] = 0) =>
             /\ (completed'[s] # completed[s] /\ failed'[s] = failed[s])
                   => /\ Len(delivered'[s]) = Len(delivered[s]) + 1
                      /\ scheduled'[s] = scheduled[s] + 1
             /\ \A t \in TimersOf(s) :
                   t \notin pending' => issued'[s] = issued[s] + 1]_vars

\* C6: stop does not preempt: a request in flight when stop is called stays
\* in flight until it settles, and when it settles (no start in between) its
\* result is not delivered and no timer is scheduled; stop before the first
\* request settles leaves the session with zero deliveries.
C6_StopNotPreemptive ==
    /\ [](\A s \in Sessions : stoppedInFlight[s] => InFlight(s))
    /\ [](\A s \in Sessions :
             (stopCalls[s] > 0 /\ ~restarted[s] /\ firstStop[s].delivered = 0)
                 => delivered[s] = <<>>)
    /\ [][\A s \in Sessions :
             (stoppedInFlight[s] /\ completed'[s] # completed[s])
                 => /\ delivered'[s] = delivered[s]
                    /\ scheduled'[s] = scheduled[s]
                    /\ TimersOf(s)' = {}]_vars

C6_Witness ==
    \E s \in Sessions :
        /\ stopCalls[s] > 0 /\ ~restarted[s]
        /\ firstStop[s].issued = 1 /\ firstStop[s].delivered = 0
        /\ completed[s] = 1 /\ ~failed[s].rejected

\* C7: a rejected request ends its session: no delivery and no timer for that
\* iteration, no further request, and the earlier deliveries stay.
C7_RejectEndsSession ==
    \A s \in Sessions :
        failed[s].rejected =>
            /\ issued[s] = failed[s].issued
            /\ completed[s] = issued[s]
            /\ Len(delivered[s]) = failed[s].delivered
            /\ scheduled[s] = Len(delivered[s])
            /\ TimersOf(s) = {}
            /\ ~InFlight(s)

C7_Witness ==
    \E s \in Sessions :
        failed[s].rejected /\ issued[s] = 2 /\ delivered[s] = <<1>>

\* C8: a second call of a session's stop function is a no-op on the poller.
C8_StopIdempotent ==
    [][\A s \in Sessions :
          (stopCalls[s] >= 1 /\ stopCalls'[s] = stopCalls[s] + 1
             /\ completed' = completed)
              => (stop' = stop /\ pending' = pending /\ timer' = timer)]_vars

\* C9: after start, stop, start, the new session runs its own sequence and
\* the stopped session's producer and consumer are not invoked again.
C9_RestartFresh ==
    \A s \in Sessions :
        restarted[s] =>
            /\ issued[nSessions] >= 1
            /\ issued[s] = firstStop[s].issued
            /\ Len(delivered[s]) = firstStop[s].delivered

\* C10: while no stop function of the poller is invoked, every delivered
\* result is followed, once the timer fires, by a further request of the
\* session, and a session whose requests resolve keeps iterating (up to the
\* model's bound on requests).
Delivered(s) == 0 < issued[s] /\ Len(delivered[s]) = issued[s]

Exhausted == TotalIssued = MaxRequests

C10_LoopContinues ==
    \A s \in Sessions :
        /\ Delivered(s) ~> (issued[s] > Len(delivered[s]) \/ AnyStop \/ Exhausted)
        /\ Started(s) ~> (Exhausted \/ AnyStop \/ failed[s].rejected)

C10_Witness ==
    \E s \in Sessions :
        ~AnyStop /\ Len(delivered[s]) = 2 /\ issued[s] = 3 /\ nSessions = MaxSessions

\* C11: a later call of start ends the earlier sessions of the poller: once
\* start has been called again, an earlier session issues no request and
\* delivers no result, and at most one session has a next iteration scheduled.
Active(s) == TimersOf(s) # {}

C11_SupersededByStart ==
    [][/\ \A s \in Sessions :
             s < nSessions =>
                 /\ issued'[s] = issued[s]
                 /\ delivered'[s] = delivered[s]
       /\ Cardinality({s \in Sessions : Active(s)'}) <= 1]_vars

C13_FactoryOncePerStart ==
    /\ factoryCalls = nSessions
    /\ \A s \in Sessions : pairOf[s] = IF Started(s) THEN s ELSE 0
    /\ \A r \in inflight : Started(r.sess) /\ pairOf[r.sess] = r.sess
    /\ \A t \in pending : Started(t.sess) /\ pairOf[t.sess] = t.sess

C13_Witness ==
    /\ nSessions = 2 /\ factoryCalls = 2 /\ AnyStop
    /\ \E s \in Sessions : issued[s] >= 2 /\ InFlight(s)

\* C14: after a stop call with no later start, every session issues at most
\* one more request, and once the requests in flight have settled the poller
\* reaches, and stays in, a state with no timer pending and no request in
\* flight (up to the model's bound on requests).
Quiet == pending = {} /\ inflight = {}

C14_QuiescenceAfterStop ==
    /\ [](halted => \A s \in Sessions : issued[s] <= issuedAtHalt[s] + 1)
    /\ halted ~> (Quiet \/ ~halted \/ Exhausted)
    /\ [][(halted /\ Quiet) => (Quiet' \/ ~halted')]_vars

C14_Witness ==
    /\ halted /\ Quiet /\ ~Exhausted /\ nSessions = 2
    /\ \E s \in Sessions : issued[s] = issuedAtHalt[s] + 1

\* C15: every registered listener was last invoked with lastBlockNumber; a
\* listener that becomes registered is invoked once, with the current
\* lastBlockNumber, in that step; a registered listener is invoked only by
\* an update that changes lastBlockNumber, so adding it again invokes nothing.
C15_ListenersConsistent ==
    /\ [](\A cb \in blockNumberListeners : lastSeen[cb] = lastBlockNumber)
    /\ [][\A cb \in Listeners :
             /\ (cb \notin blockNumberListeners /\ cb \in blockNumberListeners')
                   => /\ callsNow'[cb] = 1
                      /\ lastSeen'[cb] = lastBlockNumber
                      /\ lastBlockNumber' = lastBlockNumber
             /\ (cb \in blockNumberListeners /\ callsNow'[cb] > 0)
                   => (updCall' # NoCall /\ lastBlockNumber' # lastBlockNumber)
             /\ (cb \in blockNumberListeners /\ cb \in blockNumberListeners'
                    /\ updCall' = NoCall)
                   => lastSeen'[cb] = lastSeen[cb]]_vars

C15_Witness ==
    /\ blockNumberListeners = Listeners
    /\ lastBlockNumber = <<"string", "2">>
    /\ updCall = NoCall
    /\ \E cb \in Listeners : callsNow[cb] = 1

\* C16: a call of updateBlockNumber with the value lastBlockNumber holds
\* invokes no listener and leaves it unchanged; a call with another value
\* stores it and invokes every registered listener once with it; a listener
\* that stays registered is never invoked with the value of its previous
\* invocation.
C16_UpdateDeduplicates ==
    [][/\ updCall' # NoCall =>
             IF updCall'[2] = lastBlockNumber
             THEN /\ callsNow' = NoCalls
                  /\ lastBlockNumber' = lastBlockNumber
                  /\ lastSeen' = lastSeen
             ELSE /\ lastBlockNumber' = updCall'[2]
                  /\ \A cb \in Listeners :
                        IF cb \in blockNumberListeners
                        THEN callsNow'[cb] = 1 /\ lastSeen'[cb] = updCall'[2]
                        ELSE callsNow'[cb] = 0 /\ lastSeen'[cb] = lastSeen[cb]
       /\ \A cb \in blockNumberListeners \cap blockNumberListeners' :
             callsNow'[cb] > 0 => lastSeen'[cb] # lastSeen[cb]]_vars

C16_Witness ==
    /\ updCall # NoCall
    /\ updCall[2] = <<"string", "1">>
    /\ blockNumberListeners = Listeners
    /\ callsNow = NoCalls

\* C17: once the cleanup of an effect run has executed, the session of that
\* run never calls updateBlockNumber again; an effect run with a polkadot api
\* whose own cleanup has not executed is neither cancelled nor stopped,
\* whatever cleanups of other runs have executed.
C17_TeardownSilencesSession ==
    /\ [](\A e \in Runs :
             (runs[e].polkadot /\ ~runs[e].cleaned)
                 => (~runs[e].cancel /\ ~runs[e].stop))
    /\ [][\A e \in Runs : runs[e].cleaned => updCall'[1] # e]_vars

C17_Witness ==
    \E e \in Runs :
        /\ e < nRuns
        /\ runs[e].settledAfterCleanup
        /\ updCall[1] = nRuns
        /\ runs[nRuns].polkadot /\ runs[nRuns].pending # {}

====
